---- MODULE Spec2Model ----
(***************************************************************************)
(* A model of the object-table / delayed-write engine of src/lib.rs:       *)
(* EncodingContext, EncodingSession, DecodingContext, and the Encodable /  *)
(* Decodable implementations for u64 and Option<T>.                        *)
(*                                                                         *)
(* Integers are scaled: a sink word holds WordBits bits, an emitted u32    *)
(* occupies one word and a u64 two words (low word first); the u32 of an   *)
(* ObjectTableIndex is IndexBits wide, so that the truncation of           *)
(* `object_table.len() as u32` is reached with a handful of objects.       *)
(***************************************************************************)
EXTENDS Integers, Sequences, FiniteSets, TLC

VARIABLES
    encoder,               \* the sink: [out: words emitted, finalized: hand-offs received]
    object_table_indices,  \* HashMap<ObjectUid, ObjectTableIndex>
    object_table,          \* Vec<u64>
    delayed_writes,        \* Vec<(&EncodableObject, ObjectTableIndex)> of the running encode call
    pc,                    \* the session: idle, drain, contents, finalize, finalized, consumed
    item,                  \* the popped (object, index), the recorded position, the next field
    fin,                   \* finalize's locals: object_table_address, four_cc, next entry
    graph,                 \* fields of the objects whose fields are fixed so far
    met,                   \* objects some reference site (encoded or still to be encoded) names
    refs,                  \* number of reference sites fixed so far
    roots,                 \* sink positions at which the top-level encode calls started
    ref_log,               \* one record per encode_object call
    write_log,             \* one record per encode_contents invocation
    dcx,                   \* DecodingContext: [decoder: [data, position], object_table]
    frames,                \* the decode_object calls in progress, innermost last
    dpc,                   \* decode side: none, ready, running, returned, panicked
    result,                \* what the top-level decode returned
    ret_log,               \* one record per decode_object call that returned
    fault,                 \* what the decode call that panicked was doing
    rt                     \* the inline value of a round trip: type, value, stage, positions

encvars == <<encoder, object_table_indices, object_table, delayed_writes, pc, item, fin,
             graph, met, refs, roots, ref_log, write_log>>

decvars == <<dcx, frames, dpc, result, ret_log, fault>>

vars == <<encvars, decvars, rt>>

-----------------------------------------------------------------------------
(* Bounds of the model *)

NumKeys == 5

MaxRefs == 5

(* Scaled widths *)

IndexBits == 1

WordBits == 4

RECURSIVE Pow2(_)
Pow2(n) == IF n = 0 THEN 1 ELSE 2 * Pow2(n - 1)

IndexMod == Pow2(IndexBits)

WordMod == Pow2(WordBits)

\* u64::max_value(), the value pushed for an entry that has no address yet
U64Max == WordMod * WordMod - 1

\* Option::None of a field that may hold a reference
None == 0

-----------------------------------------------------------------------------
(* The objects handed to the session.  Objects 1..NumKeys report distinct   *)
(* ObjectUids; object NumKeys + 1 is a different object that reports the    *)
(* ObjectUid of object 1.                                                   *)

Keys == 1..NumKeys

Objects == 1..(NumKeys + 1)

object_uid(object) == ((object - 1) % NumKeys) + 1

\* the `id: u64` field of an object
IdOf(object) == WordMod * object + object_uid(object)

\* The first object no reference site names yet: objects are numbered in the
\* order in which the caller's values first mention them.
NextFresh(seen) ==
    LET unseen == Keys \ seen
    IN  IF unseen = {} THEN {} ELSE {CHOOSE k \in unseen : \A j \in unseen : k <= j}

RefTargets(seen) == seen \cup NextFresh(seen) \cup {NumKeys + 1}

Some(f) == IF f = None THEN 0 ELSE 1

-----------------------------------------------------------------------------
(* Encoder (the sink) *)

position(enc) == Len(enc.out)

emit_u32(enc, value) == [enc EXCEPT !.out = Append(@, value % WordMod)]

emit_u64(enc, value) ==
    [enc EXCEPT !.out = @ \o <<value % WordMod, (value \div WordMod) % WordMod>>]

EncoderFinalize(enc, four_cc, object_table_address) ==
    [enc EXCEPT !.finalized = Append(@, [four_cc |-> four_cc,
                                         object_table_address |-> object_table_address])]

-----------------------------------------------------------------------------
(* EncodingContext *)

Context == [encoder |-> encoder,
            object_table_indices |-> object_table_indices,
            object_table |-> object_table,
            delayed_writes |-> delayed_writes,
            ref_log |-> ref_log]

\* a HashMap entry that is not occupied
Vacant == -1

\* `len as u32`
as_u32(n) == n % IndexMod

\* Faulty variant of get_object_table_index: the Occupied arm is never taken
get_object_table_index_no_lookup(ctx, uid) ==
    LET index == as_u32(Len(ctx.object_table))
    IN  [ctx |-> [ctx EXCEPT !.object_table_indices[uid] = index,
                             !.object_table = Append(@, U64Max)],
         index |-> index,
         is_new |-> TRUE]

\* Faulty variant of get_object_table_index: the Occupied arm pushes an entry
get_object_table_index_push_on_hit(ctx, uid) ==
    IF ctx.object_table_indices[uid] # Vacant
    THEN [ctx |-> [ctx EXCEPT !.object_table = Append(@, U64Max)],
          index |-> ctx.object_table_indices[uid],
          is_new |-> FALSE]
    ELSE LET index == as_u32(Len(ctx.object_table))
         IN  [ctx |-> [ctx EXCEPT !.object_table_indices[uid] = index,
                                  !.object_table = Append(@, U64Max)],
              index |-> index,
              is_new |-> TRUE]

\* Returns the context after the call with the result in .index and .is_new
get_object_table_index(ctx, uid) ==
    IF ctx.object_table_indices[uid] # Vacant
    THEN [ctx |-> ctx, index |-> ctx.object_table_indices[uid], is_new |-> FALSE]
    ELSE LET index == as_u32(Len(ctx.object_table))
         IN  [ctx |-> [ctx EXCEPT !.object_table_indices[uid] = index,
                                  !.object_table = Append(@, U64Max)],
              index |-> index,
              is_new |-> TRUE]

enqueue_object_encoding(ctx, object_table_index, encodable) ==
    [ctx EXCEPT !.delayed_writes =
        Append(@, [object |-> encodable, object_table_index |-> object_table_index])]

\* Faulty variant of encode_object: the object is queued on every reference
encode_object_requeue(ctx, object) ==
    LET uid == object_uid(object)
        got == get_object_table_index(ctx, uid)
        emitted == [got.ctx EXCEPT
                      !.encoder = emit_u32(@, got.index),
                      !.ref_log = Append(@, [uid |-> uid,
                                             at |-> position(got.ctx.encoder),
                                             is_new |-> got.is_new,
                                             table_len |-> Len(ctx.object_table)])]
    IN  enqueue_object_encoding(emitted, got.index, object)

encode_object(ctx, object) ==
    LET uid == object_uid(object)
        got == get_object_table_index(ctx, uid)
        emitted == [got.ctx EXCEPT
                      !.encoder = emit_u32(@, got.index),
                      !.ref_log = Append(@, [uid |-> uid,
                                             at |-> position(got.ctx.encoder),
                                             is_new |-> got.is_new,
                                             table_len |-> Len(ctx.object_table)])]
    IN  IF got.is_new
        THEN enqueue_object_encoding(emitted, got.index, object)
        ELSE emitted

\* Encodable for Option<&Object>: the tag, then the reference
encode_option_ref(ctx, field) ==
    IF field = None
    THEN [ctx EXCEPT !.encoder = emit_u32(@, 0)]
    ELSE encode_object([ctx EXCEPT !.encoder = emit_u32(@, 1)], field)

SetContext(ctx) ==
    /\ encoder' = ctx.encoder
    /\ object_table_indices' = ctx.object_table_indices
    /\ object_table' = ctx.object_table
    /\ delayed_writes' = ctx.delayed_writes
    /\ ref_log' = ctx.ref_log

-----------------------------------------------------------------------------
(* EncodingSession *)

\* an object whose fields no encode_contents has read yet
NoFields == [known |-> FALSE, left |-> None, right |-> None]

NoItem == [object |-> None, object_table_index |-> 0, position |-> 0, field |-> 0]

NoFin == [object_table_address |-> 0, four_cc |-> "", next |-> 0]

\* EncodingSession::new, but for the sink it is given
NewTables ==
    /\ object_table_indices = [uid \in Keys |-> Vacant]
    /\ object_table = <<>>
    /\ delayed_writes = <<>>
    /\ pc = "idle"
    /\ item = NoItem
    /\ fin = NoFin
    /\ graph = [o \in Objects |-> NoFields]
    /\ met = {}
    /\ refs = 0
    /\ roots = <<>>
    /\ ref_log = <<>>
    /\ write_log = <<>>

InitEncodingSession ==
    /\ encoder = [out |-> <<>>, finalized |-> <<>>]
    /\ NewTables

\* EncodingSession::encode up to the call of write_enqueued_objects, for a
\* value whose encode is a reference to `object`
Encode(object) ==
    /\ pc = "idle"
    /\ refs < MaxRefs
    /\ SetContext(encode_object([Context EXCEPT !.delayed_writes = <<>>], object))
    /\ pc' = "drain"
    /\ met' = met \cup {object}
    /\ refs' = refs + 1
    /\ roots' = Append(roots, position(encoder))
    /\ UNCHANGED <<item, fin, graph, write_log>>
    /\ UNCHANGED <<decvars, rt>>

\* Faulty variant of Pop: the oldest item of the queue is taken
PopOldest ==
    /\ pc = "drain"
    /\ delayed_writes # <<>>
    /\ LET popped == delayed_writes[1]
           o == popped.object
       IN  /\ delayed_writes' = SubSeq(delayed_writes, 2, Len(delayed_writes))
           /\ item' = [object |-> o,
                       object_table_index |-> popped.object_table_index,
                       position |-> position(encoder),
                       field |-> 0]
           /\ write_log' = Append(write_log, [object |-> o,
                                              object_table_index |-> popped.object_table_index,
                                              position |-> position(encoder)])
           /\ IF graph[o].known
              THEN UNCHANGED <<graph, met, refs>>
              ELSE \E left \in RefTargets(met) \cup {None} :
                   \E right \in RefTargets(met \cup ({left} \ {None})) \cup {None} :
                       /\ refs + Some(left) + Some(right) <= MaxRefs
                       /\ graph' = [graph EXCEPT ![o] = [known |-> TRUE, left |-> left,
                                                        right |-> right]]
                       /\ met' = met \cup ({left, right} \ {None})
                       /\ refs' = refs + Some(left) + Some(right)
    /\ pc' = "contents"
    /\ UNCHANGED <<encoder, object_table_indices, object_table, fin, roots, ref_log>>
    /\ UNCHANGED <<decvars, rt>>

\* write_enqueued_objects: pop an item, record the position, enter encode_contents
Pop ==
    /\ pc = "drain"
    /\ delayed_writes # <<>>
    /\ LET popped == delayed_writes[Len(delayed_writes)]
           o == popped.object
       IN  /\ delayed_writes' = SubSeq(delayed_writes, 1, Len(delayed_writes) - 1)
           /\ item' = [object |-> o,
                       object_table_index |-> popped.object_table_index,
                       position |-> position(encoder),
                       field |-> 0]
           /\ write_log' = Append(write_log, [object |-> o,
                                              object_table_index |-> popped.object_table_index,
                                              position |-> position(encoder)])
           /\ IF graph[o].known
              THEN UNCHANGED <<graph, met, refs>>
              ELSE \E left \in RefTargets(met) \cup {None} :
                   \E right \in RefTargets(met \cup ({left} \ {None})) \cup {None} :
                       /\ refs + Some(left) + Some(right) <= MaxRefs
                       /\ graph' = [graph EXCEPT ![o] = [known |-> TRUE, left |-> left,
                                                        right |-> right]]
                       /\ met' = met \cup ({left, right} \ {None})
                       /\ refs' = refs + Some(left) + Some(right)
    /\ pc' = "contents"
    /\ UNCHANGED <<encoder, object_table_indices, object_table, fin, roots, ref_log>>
    /\ UNCHANGED <<decvars, rt>>

\* encode_contents of the popped object, one field at a time: id, left, right
EncodeField ==
    /\ pc = "contents"
    /\ item.field < 3
    /\ LET o == item.object
           ctx == IF item.field = 0
                  THEN [Context EXCEPT !.encoder = emit_u64(@, IdOf(o))]
                  ELSE IF item.field = 1
                       THEN encode_option_ref(Context, graph[o].left)
                       ELSE encode_option_ref(Context, graph[o].right)
       IN  SetContext(ctx)
    /\ item' = [item EXCEPT !.field = @ + 1]
    /\ UNCHANGED <<pc, fin, graph, met, refs, roots, write_log>>
    /\ UNCHANGED <<decvars, rt>>

\* write_enqueued_objects after encode_contents returned: write the address
PatchTable ==
    /\ pc = "contents"
    /\ item.field = 3
    /\ object_table' = [object_table EXCEPT ![item.object_table_index + 1] = item.position]
    /\ item' = NoItem
    /\ pc' = "drain"
    /\ UNCHANGED <<encoder, object_table_indices, delayed_writes, fin, graph, met, refs,
                   roots, ref_log, write_log>>
    /\ UNCHANGED <<decvars, rt>>

\* write_enqueued_objects: the queue is empty, the loop breaks and encode returns
EncodeReturn ==
    /\ pc = "drain"
    /\ delayed_writes = <<>>
    /\ pc' = "idle"
    /\ UNCHANGED <<encoder, object_table_indices, object_table, delayed_writes, item, fin,
                   graph, met, refs, roots, ref_log, write_log>>
    /\ UNCHANGED <<decvars, rt>>

FourCCs == {"OBJT", "TEST"}

\* Faulty variant of FinalizeBegin: the address is the position after the table
FinalizeBeginLate(four_cc) ==
    /\ pc = "idle"
    /\ fin' = [object_table_address |-> position(encoder) + 2 * Len(object_table),
               four_cc |-> four_cc, next |-> 1]
    /\ pc' = "finalize"
    /\ UNCHANGED <<encoder, object_table_indices, object_table, delayed_writes, item,
                   graph, met, refs, roots, ref_log, write_log>>
    /\ UNCHANGED <<decvars, rt>>

\* EncodingSession::finalize: take the position
FinalizeBegin(four_cc) ==
    /\ pc = "idle"
    /\ fin' = [object_table_address |-> position(encoder), four_cc |-> four_cc, next |-> 1]
    /\ pc' = "finalize"
    /\ UNCHANGED <<encoder, object_table_indices, object_table, delayed_writes, item,
                   graph, met, refs, roots, ref_log, write_log>>
    /\ UNCHANGED <<decvars, rt>>

\* EncodingSession::finalize: one iteration of the loop over the table
FinalizeEmit ==
    /\ pc = "finalize"
    /\ fin.next <= Len(object_table)
    /\ encoder' = emit_u64(encoder, object_table[fin.next])
    /\ fin' = [fin EXCEPT !.next = @ + 1]
    /\ UNCHANGED <<object_table_indices, object_table, delayed_writes, pc, item,
                   graph, met, refs, roots, ref_log, write_log>>
    /\ UNCHANGED <<decvars, rt>>

\* Faulty variant of FinalizeEnd: the session can be used after the hand-off
FinalizeEndSessionKept ==
    /\ pc = "finalize"
    /\ fin.next > Len(object_table)
    /\ encoder' = EncoderFinalize(encoder, fin.four_cc, fin.object_table_address)
    /\ pc' = "idle"
    /\ UNCHANGED <<object_table_indices, object_table, delayed_writes, item, fin,
                   graph, met, refs, roots, ref_log, write_log>>
    /\ UNCHANGED <<decvars, rt>>

\* EncodingSession::finalize: the hand-off to the sink
FinalizeEnd ==
    /\ pc = "finalize"
    /\ fin.next > Len(object_table)
    /\ encoder' = EncoderFinalize(encoder, fin.four_cc, fin.object_table_address)
    /\ pc' = "finalized"
    /\ UNCHANGED <<object_table_indices, object_table, delayed_writes, item, fin,
                   graph, met, refs, roots, ref_log, write_log>>
    /\ UNCHANGED <<decvars, rt>>

-----------------------------------------------------------------------------
(* Decoder (the source) *)

decoder_position(dec) == dec.position

set_position(dec, address) == [dec EXCEPT !.position = address]

\* A read that runs past the end of the data fails (ok = FALSE)
read_u32(dec) ==
    IF dec.position + 1 <= Len(dec.data)
    THEN [ok |-> TRUE, value |-> dec.data[dec.position + 1],
          dec |-> [dec EXCEPT !.position = @ + 1]]
    ELSE [ok |-> FALSE, value |-> 0, dec |-> dec]

read_u64(dec) ==
    IF dec.position + 2 <= Len(dec.data)
    THEN [ok |-> TRUE,
          value |-> dec.data[dec.position + 1] + WordMod * dec.data[dec.position + 2],
          dec |-> [dec EXCEPT !.position = @ + 2]]
    ELSE [ok |-> FALSE, value |-> 0, dec |-> dec]

-----------------------------------------------------------------------------
(* DecodingContext *)

MaxDepth == 6

NoFault == [kind |-> "", called_at |-> 0, index |-> 0, unwound |-> <<>>]

NewFrame(called_at, index, current_position) ==
    [called_at |-> called_at, index |-> index, current_position |-> current_position,
     field |-> 0,
     id |-> 0, left |-> <<>>, right |-> <<>>, nested |-> 0]

\* Faulty variant of index_table: the index is not checked against the length
index_table_unchecked(table, index) ==
    IF Len(table) = 0
    THEN [panic |-> FALSE, value |-> 0]
    ELSE [panic |-> FALSE, value |-> table[(index % Len(table)) + 1]]

\* `self.object_table[object_table_index as usize]`: a Vec index is bounds-checked
index_table(table, index) ==
    IF index < Len(table)
    THEN [panic |-> FALSE, value |-> table[index + 1]]
    ELSE [panic |-> TRUE, value |-> 0]

\* A panic unwinds every decode_object call in progress; nothing runs on the way out
Panicked(d, stack, kind, called_at, index) ==
    [dcx |-> d, frames |-> <<>>, dpc |-> "panicked",
     fault |-> [kind |-> kind, called_at |-> called_at, index |-> index, unwound |-> stack]]

\* decode_object up to the call of decode_contents
decode_object(d, stack) ==
    LET called_at == decoder_position(d.decoder)
        read == read_u32(d.decoder)
        entry == index_table(d.object_table, read.value)
        current_position == decoder_position(read.dec)
    IN  IF ~read.ok
        THEN Panicked(d, stack, "read", called_at, 0)
        ELSE IF entry.panic
        THEN Panicked([d EXCEPT !.decoder = read.dec], stack, "index", called_at, read.value)
        ELSE [dcx |-> [d EXCEPT !.decoder = set_position(read.dec, entry.value)],
              frames |-> Append(stack, NewFrame(called_at, read.value, current_position)),
              dpc |-> "running",
              fault |-> NoFault]

\* Faulty variant of decode_object_exit: the position is left where
\* decode_contents stopped
decode_object_exit_no_restore(d, frame) == d

\* decode_object after decode_contents returned `object`: the decoder to go on with
decode_object_exit(d, frame) ==
    [d EXCEPT !.decoder = set_position(@, frame.current_position)]

SetDecoding(st) ==
    /\ dcx' = st.dcx
    /\ frames' = st.frames
    /\ dpc' = st.dpc
    /\ fault' = st.fault

-----------------------------------------------------------------------------
(* DecodingSession *)

NoDcx == [decoder |-> [data |-> <<>>, position |-> 0], object_table |-> <<>>]

InitDecoding ==
    /\ dcx = NoDcx
    /\ frames = <<>>
    /\ dpc = "none"
    /\ result = <<>>
    /\ ret_log = <<>>
    /\ fault = NoFault

\* The tables a caller may load for the data: the session's, or one that misses
\* its last entry (a table that does not belong to the data)
LoadableTables(table) ==
    IF table = <<>> THEN {table} ELSE {table, SubSeq(table, 1, Len(table) - 1)}

\* The caller builds a DecodingSession over the finalized data, with the decoder
\* at a top-level value; the encoding session and its sink were consumed by
\* finalize
NewDecodingSession(table, start) ==
    /\ pc = "finalized"
    /\ dpc = "none"
    /\ dcx' = [decoder |-> [data |-> encoder.out, position |-> start],
               object_table |-> table]
    /\ dpc' = "ready"
    /\ pc' = "consumed"
    /\ object_table_indices' = [uid \in Keys |-> Vacant]
    /\ object_table' = <<>>
    /\ fin' = NoFin
    /\ met' = {}
    /\ refs' = 0
    /\ roots' = <<>>
    /\ ref_log' = <<>>
    /\ write_log' = <<>>
    /\ encoder' = [out |-> <<>>, finalized |-> <<>>]
    /\ UNCHANGED <<delayed_writes, item, graph>>
    /\ UNCHANGED <<frames, result, ret_log, fault, rt>>

\* DecodingSession::decode of a value whose decode is a reference to an object
Decode ==
    /\ dpc = "ready"
    /\ SetDecoding(decode_object(dcx, frames))
    /\ UNCHANGED <<encvars, result, ret_log, rt>>

Top == frames[Len(frames)]

SetTop(frame) == [frames EXCEPT ![Len(frames)] = frame]

\* Decodable::decode for Option<&Object> inside decode_contents: the tag, then
\* the reference
decode_option_ref(d, stack) ==
    LET read == read_u32(d.decoder)
        top == stack[Len(stack)]
    IN  IF ~read.ok
        THEN Panicked(d, stack, "read", decoder_position(d.decoder), 0)
        ELSE IF read.value = 0
        THEN [dcx |-> [d EXCEPT !.decoder = read.dec],
              frames |-> [stack EXCEPT ![Len(stack)] = [top EXCEPT !.field = @ + 1]],
              dpc |-> "running",
              fault |-> NoFault]
        ELSE decode_object([d EXCEPT !.decoder = read.dec], stack)

\* decode_contents of the object being decoded, one field at a time: id, left, right
DecodeField ==
    /\ dpc = "running"
    /\ Top.field < 3
    /\ Len(frames) < MaxDepth
    /\ IF Top.field = 0
       THEN LET read == read_u64(dcx.decoder)
            IN  IF read.ok
                THEN SetDecoding([dcx |-> [dcx EXCEPT !.decoder = read.dec],
                                  frames |-> SetTop([Top EXCEPT !.id = read.value,
                                                                !.field = 1]),
                                  dpc |-> "running",
                                  fault |-> NoFault])
                ELSE SetDecoding(Panicked(dcx, frames, "read",
                                          decoder_position(dcx.decoder), 0))
       ELSE SetDecoding(decode_option_ref(dcx, frames))
    /\ UNCHANGED <<encvars, result, ret_log, rt>>

\* decode_contents returned: decode_object sets the position back and returns the
\* object to its caller
DecodeReturn ==
    /\ dpc = "running"
    /\ Top.field = 3
    /\ LET object == [id |-> Top.id, left |-> Top.left, right |-> Top.right]
           after == decode_object_exit(dcx, Top)
           rest == SubSeq(frames, 1, Len(frames) - 1)
       IN  /\ dcx' = after
           /\ ret_log' = Append(ret_log, [called_at |-> Top.called_at,
                                          index |-> Top.index,
                                          position |-> decoder_position(after.decoder),
                                          nested |-> Top.nested,
                                          id |-> Top.id])
           /\ IF rest = <<>>
              THEN /\ frames' = <<>>
                   /\ result' = <<object>>
                   /\ dpc' = "returned"
              ELSE LET caller == rest[Len(rest)]
                       filled == IF caller.field = 1
                                 THEN [caller EXCEPT !.left = <<object>>]
                                 ELSE [caller EXCEPT !.right = <<object>>]
                   IN  /\ frames' = [rest EXCEPT ![Len(rest)] =
                                        [filled EXCEPT !.field = @ + 1,
                                                       !.nested = @ + 1 + Top.nested]]
                       /\ result' = result
                       /\ dpc' = "running"
    /\ UNCHANGED <<encvars, fault, rt>>

-----------------------------------------------------------------------------
(* Inline values: u64 and Option<T>.  A type is the number n of Options     *)
(* around a u64; None is <<>> and Some(v) is <<v>>.                         *)

MaxOptionDepth == 2

RECURSIVE ValuesOf(_)
ValuesOf(n) ==
    IF n = 0
    THEN 0..U64Max
    ELSE {<<>>} \cup {<<v>> : v \in ValuesOf(n - 1)}

\* Encodable for u64
encode_u64(ctx, value) == [ctx EXCEPT !.encoder = emit_u64(@, value)]

\* Decodable for u64
decode_u64(d) ==
    LET read == read_u64(d.decoder)
    IN  [ok |-> read.ok, value |-> read.value, dcx |-> [d EXCEPT !.decoder = read.dec]]

RECURSIVE encode_value(_, _, _)
\* Encodable for Option<T>
encode_option(ctx, n, value) ==
    IF value = <<>>
    THEN [ctx EXCEPT !.encoder = emit_u32(@, 0)]
    ELSE encode_value([ctx EXCEPT !.encoder = emit_u32(@, 1)], n - 1, value[1])

encode_value(ctx, n, value) ==
    IF n = 0 THEN encode_u64(ctx, value) ELSE encode_option(ctx, n, value)

RECURSIVE decode_value(_, _)
\* Faulty variant of decode_option: None is taken for discriminant 1
decode_option_swapped(d, n) ==
    LET read == read_u32(d.decoder)
        disr == read.value
        inner == decode_value([d EXCEPT !.decoder = read.dec], n - 1)
    IN  IF ~read.ok
        THEN [ok |-> FALSE, value |-> <<>>, dcx |-> d]
        ELSE IF disr = 1
        THEN [ok |-> TRUE, value |-> <<>>, dcx |-> [d EXCEPT !.decoder = read.dec]]
        ELSE [ok |-> inner.ok, value |-> <<inner.value>>, dcx |-> inner.dcx]

\* Decodable for Option<T>
decode_option(d, n) ==
    LET read == read_u32(d.decoder)
        disr == read.value
        inner == decode_value([d EXCEPT !.decoder = read.dec], n - 1)
    IN  IF ~read.ok
        THEN [ok |-> FALSE, value |-> <<>>, dcx |-> d]
        ELSE IF disr = 0
        THEN [ok |-> TRUE, value |-> <<>>, dcx |-> [d EXCEPT !.decoder = read.dec]]
        ELSE [ok |-> inner.ok, value |-> <<inner.value>>, dcx |-> inner.dcx]

decode_value(d, n) ==
    IF n = 0 THEN decode_u64(d) ELSE decode_option(d, n)

\* What the sink holds before the value is encoded
Prefixes == {<<>>, <<1>>}

InitRoundTrip ==
    /\ NewTables
    /\ InitDecoding
    /\ \E n \in 0..MaxOptionDepth : \E value \in ValuesOf(n) : \E prefix \in Prefixes :
         /\ rt = [type |-> n, value |-> value, stage |-> "new", start |-> Len(prefix),
                  end |-> 0, decoded |-> 0, stop |-> 0]
         /\ encoder = [out |-> prefix, finalized |-> <<>>]

\* EncodingSession::encode of the inline value: it queues nothing, and
\* write_enqueued_objects returns at its first pop
EncodeValue ==
    /\ rt.stage = "new"
    /\ pc = "idle"
    /\ LET ctx == encode_value([Context EXCEPT !.delayed_writes = <<>>], rt.type, rt.value)
       IN  /\ ctx.delayed_writes = <<>>
           /\ SetContext(ctx)
           /\ rt' = [rt EXCEPT !.stage = "encoded", !.end = position(ctx.encoder)]
    /\ UNCHANGED <<pc, item, fin, graph, met, refs, roots, write_log>>
    /\ UNCHANGED decvars

\* DecodingSession::decode of the type of the value, over what the sink holds,
\* starting where the value was encoded
DecodeValue ==
    /\ rt.stage = "encoded"
    /\ LET d == [decoder |-> [data |-> encoder.out, position |-> rt.start],
                 object_table |-> object_table]
           got == decode_value(d, rt.type)
       IN  /\ dcx' = got.dcx
           /\ IF got.ok
              THEN /\ rt' = [rt EXCEPT !.stage = "decoded", !.decoded = got.value,
                                       !.stop = decoder_position(got.dcx.decoder)]
                   /\ dpc' = "returned"
              ELSE /\ rt' = [rt EXCEPT !.stage = "panicked"]
                   /\ dpc' = "panicked"
    /\ UNCHANGED <<encvars, frames, result, ret_log, fault>>

-----------------------------------------------------------------------------
(* The program: an encoding session; an encoding session and then a         *)
(* decoding session over the data it produced; one inline value encoded and *)
(* decoded                                                                  *)

NoRT == [type |-> 0, value |-> 0, stage |-> "none", start |-> 0, end |-> 0,
         decoded |-> 0, stop |-> 0]

Init ==
    /\ InitEncodingSession
    /\ InitDecoding
    /\ rt = NoRT

NextEncoding ==
    \/ \E object \in RefTargets(met) : Encode(object)
    \/ Pop
    \/ EncodeField
    \/ PatchTable
    \/ EncodeReturn
    \/ \E four_cc \in FourCCs : FinalizeBegin(four_cc)
    \/ FinalizeEmit
    \/ FinalizeEnd

NextDecoding ==
    \/ \E table \in LoadableTables(object_table) :
       \E i \in 1..Len(roots) : NewDecodingSession(table, roots[i])
    \/ Decode
    \/ DecodeField
    \/ DecodeReturn

Next == NextEncoding

Spec == Init /\ [][Next]_vars

SpecDecoding == Init /\ [][NextEncoding \/ NextDecoding]_vars

NextRoundTrip == EncodeValue \/ DecodeValue

SpecRoundTrip == InitRoundTrip /\ [][NextRoundTrip]_vars

-----------------------------------------------------------------------------
(* What the logs say about the session *)

RefsOf(uid) == {j \in DOMAIN ref_log : ref_log[j].uid = uid}

WritesOf(uid) == {j \in DOMAIN write_log : object_uid(write_log[j].object) = uid}

ReferencedKeys == {ref_log[j].uid : j \in DOMAIN ref_log}

FirstRef(uid) == CHOOSE j \in RefsOf(uid) : \A k \in RefsOf(uid) : j <= k

\* How many keys were first referenced before uid was
DiscoveryRank(uid) == Cardinality({ref_log[k].uid : k \in 1..(FirstRef(uid) - 1)})

Resolved(i) == object_table[i] # U64Max

AtRest == pc \in {"idle", "finalize", "finalized"}

-----------------------------------------------------------------------------
(* C1. Dedup: in one session, whatever the encode calls and the object      *)
(* graph, the object table has exactly one entry per distinct ObjectUid     *)
(* referenced, encode_contents runs at most once per ObjectUid, and exactly *)
(* once by the time the encode call has returned, however many reference    *)
(* sites name the ObjectUid.                                                *)
C1_Dedup ==
    /\ Len(object_table) = Cardinality(ReferencedKeys)
    /\ \A uid \in Keys : Cardinality(WritesOf(uid)) <= 1
    /\ AtRest => \A uid \in ReferencedKeys : Cardinality(WritesOf(uid)) = 1

\* An ObjectUid referenced from two encode calls and twice within one of them,
\* after the calls returned
C1_Witness ==
    /\ pc = "idle"
    /\ Len(roots) >= 2
    /\ \E uid \in Keys :
         /\ Cardinality(RefsOf(uid)) >= 3
         /\ Cardinality(WritesOf(uid)) = 1
         /\ \E j \in RefsOf(uid) : ref_log[j].at < roots[2]
         /\ \E j \in RefsOf(uid) : ref_log[j].at >= roots[2]

(* C2. Reference ordering: every encode_object call emits one u32, the      *)
(* value emitted for an ObjectUid is the index given to it at its first     *)
(* reference, and the indices given at first references are 0, 1, 2, ... in *)
(* the order of the first references.                                       *)
C2_ReferenceOrdering ==
    \A j \in DOMAIN ref_log :
        /\ ref_log[j].at + 1 <= Len(encoder.out)
        /\ encoder.out[ref_log[j].at + 1] = DiscoveryRank(ref_log[j].uid)

(* C4. Encode completeness: whenever a top-level encode call has returned,  *)
(* its queue is empty and no object table entry holds u64::MAX.             *)
C4_EncodeCompleteness ==
    pc = "idle" =>
        /\ delayed_writes = <<>>
        /\ \A i \in 1..Len(object_table) : Resolved(i)

\* Keys whose contents no encode_contents has started to write
Unwritten == NumKeys - Cardinality({uid \in Keys : WritesOf(uid) # {}})

Measure ==
    IF pc = "drain" THEN 5 * Unwritten + 1
    ELSE IF pc = "contents" THEN 5 * Unwritten + 5 - item.field
    ELSE 5 * Unwritten

InCall == pc \in {"drain", "contents"}

\* Root X, X's contents reference Y, Y's contents reference X, nothing else
TwoCycle(X, Y) ==
    /\ object_uid(X) # object_uid(Y)
    /\ Len(roots) = 1
    /\ ref_log[1].uid = object_uid(X)
    /\ graph[X].known /\ graph[Y].known
    /\ Y \in {graph[X].left, graph[X].right}
    /\ X \in {graph[Y].left, graph[Y].right}
    /\ {graph[X].left, graph[X].right, graph[Y].left, graph[Y].right} \subseteq {None, X, Y}

C3_Returned ==
    AtRest =>
        /\ Len(write_log) = Cardinality(ReferencedKeys)
        /\ \A X, Y \in Objects :
               TwoCycle(X, Y) =>
                   /\ Len(object_table) = 2
                   /\ Resolved(1) /\ Resolved(2)
                   /\ Len(write_log) = 2

(* C3. Cycle termination: a top-level encode call terminates on every       *)
(* graph, cyclic or not: each step of the call lowers a measure that never  *)
(* goes below 0, and a step is possible until the call returns.  The drain  *)
(* loop runs once per distinct ObjectUid, and after encoding a two-object   *)
(* cycle the table has two entries, both with an address.                   *)
C3_CycleTermination ==
    /\ [](Measure >= 0)
    /\ [][InCall => Measure' < Measure]_vars
    /\ [](InCall => ENABLED (Pop \/ EncodeField \/ PatchTable \/ EncodeReturn))
    /\ []C3_Returned

\* The encode call of a two-object cycle has returned
C3_Witness ==
    /\ pc = "idle"
    /\ \E X, Y \in Objects : TwoCycle(X, Y)
    /\ Len(object_table) = 2

\* The key whose first reference pushed entry i
KeyOfEntry(i) == CHOOSE uid \in ReferencedKeys : DiscoveryRank(uid) = i - 1

C6_Addresses ==
    \A i \in 1..Len(object_table) :
        Resolved(i) =>
            /\ \E j \in WritesOf(KeyOfEntry(i)) : object_table[i] = write_log[j].position
            /\ pc = "finalized" =>
                   object_table[i] <= encoder.finalized[1].object_table_address

(* C6. Address correctness: an entry that holds an address holds the sink   *)
(* position recorded just before the contents of the object the entry was   *)
(* pushed for were written, that position is not beyond the object-table    *)
(* address given to the sink, and an entry that holds an address is never   *)
(* written again.                                                           *)
C6_AddressCorrectness ==
    /\ []C6_Addresses
    /\ [][pc # "finalized" =>
             \A i \in 1..Len(object_table) : Resolved(i) => object_table'[i] = object_table[i]]_vars

(* C9. UnresolvedReference: finalize never emits u64::MAX for an entry and  *)
(* never hands off to the sink while an entry holds u64::MAX.               *)
C9_UnresolvedReference ==
    /\ pc = "finalize" => \A i \in 1..(fin.next - 1) : Resolved(i)
    /\ pc = "finalized" => \A i \in 1..Len(object_table) : Resolved(i)

\* The u64 the sink holds at the place of entry i of the emitted table
EmittedEntry(i) ==
    read_u64([data |-> encoder.out,
              position |-> fin.object_table_address + 2 * (i - 1)]).value

(* C8. Finalize ordering and layout: finalize takes the sink position at    *)
(* its start as the object-table address, emits one u64 per entry in index  *)
(* order from that address on, and hands off to the sink once, after the    *)
(* last entry, with the caller's tag and that address.                      *)
C8_FinalizeLayout ==
    /\ pc \in {"idle", "drain", "contents", "finalize"} => encoder.finalized = <<>>
    /\ pc = "finalize" =>
          /\ position(encoder) = fin.object_table_address + 2 * (fin.next - 1)
          /\ \A i \in 1..(fin.next - 1) : EmittedEntry(i) = object_table[i]
    /\ pc = "finalized" =>
          /\ encoder.finalized = <<[four_cc |-> fin.four_cc,
                                    object_table_address |-> fin.object_table_address]>>
          /\ fin.four_cc \in FourCCs
          /\ position(encoder) = fin.object_table_address + 2 * Len(object_table)
          /\ \A i \in 1..Len(object_table) : EmittedEntry(i) = object_table[i]

\* The sink was handed a table of two entries or more
C8_Witness ==
    /\ pc = "finalized"
    /\ Len(object_table) >= 2
    /\ Len(encoder.finalized) = 1

-----------------------------------------------------------------------------
(* C5. Cursor restoration, as stated: when decode_object returns, the       *)
(* position of the source is the position it had just before the call.      *)
C5_CursorRestoration ==
    \A j \in DOMAIN ret_log : ret_log[j].position = ret_log[j].called_at

(* C5, amended: when decode_object returns, the position of the source is   *)
(* the position it had just after the call read its table index, one u32    *)
(* past the position before the call, however many decode_object calls      *)
(* were nested in the decoding of the contents.                             *)
C5_CursorAfterIndex ==
    \A j \in DOMAIN ret_log : ret_log[j].position = ret_log[j].called_at + 1

\* A decode_object call with two or more calls nested in it has returned
C5_Witness ==
    \E j \in DOMAIN ret_log : ret_log[j].nested >= 2

(* C10. OutOfRangeIndex: decode_object fails at once on a table index that  *)
(* is not below the length of the loaded table: the source has only moved   *)
(* past the index, no position was set, decode_contents was not entered     *)
(* for it and nothing is returned.                                          *)
C10_OutOfRangeIndex ==
    /\ \A j \in DOMAIN frames : frames[j].index < Len(dcx.object_table)
    /\ \A j \in DOMAIN ret_log : ret_log[j].index < Len(dcx.object_table)
    /\ fault.kind = "index" =>
          /\ fault.index >= Len(dcx.object_table)
          /\ dpc = "panicked"
          /\ frames = <<>>
          /\ result = <<>>
          /\ decoder_position(dcx.decoder) = fault.called_at + 1
          /\ dcx.decoder.data[fault.called_at + 1] = fault.index

\* An index out of range was read inside the contents of an object
C10_Witness ==
    /\ fault.kind = "index"
    /\ fault.unwound # <<>>

-----------------------------------------------------------------------------
(* C7. Round-trip: decoding what encoding an inline value wrote returns     *)
(* the value and stops where the encoding stopped.                          *)
C7_RoundTrip ==
    rt.stage \notin {"new", "encoded"} =>
        /\ rt.stage = "decoded"
        /\ rt.decoded = rt.value
        /\ rt.stop = rt.end

\* Some(None) and Some(Some(v)) of an Option<Option<u64>> went round
C7_Witness ==
    /\ rt.stage = "decoded"
    /\ rt.type = 2
    /\ rt.value # <<>>
    /\ rt.start > 0

-----------------------------------------------------------------------------
(* C11. Cursor restoration on failure: when the decoding of contents fails  *)
(* inside decode_object calls, at any nesting depth, the position of the    *)
(* source is the one the outermost of these calls saved before it set the   *)
(* position to the address of the contents.                                 *)
C11_CursorRestoredOnFailure ==
    (dpc = "panicked" /\ fault.unwound # <<>>) =>
        decoder_position(dcx.decoder) = fault.unwound[1].current_position

-----------------------------------------------------------------------------
\* Objects of the session that differ but report one ObjectUid
Collide(a, b) == a # b /\ object_uid(a) = object_uid(b)

(* C12. IdentityKeyCollision: no encode call returns as after a success     *)
(* when the objects encoded in the session include two different objects    *)
(* that report one ObjectUid: a call that returned has written the contents *)
(* of every object it was given a reference to, once per session.           *)
C12_IdentityKeyCollision ==
    pc = "idle" =>
        /\ \A a, b \in met : ~Collide(a, b)
        /\ \A o \in met : \E j \in DOMAIN write_log : write_log[j].object = o

-----------------------------------------------------------------------------
\* Created: no encode call yet; Active: some encode call was made; Finalized:
\* finalize was invoked
SessionState ==
    IF pc \in {"finalize", "finalized"} THEN "Finalized"
    ELSE IF roots = <<>> THEN "Created"
    ELSE "Active"

(* C13. Session lifecycle: an encoding session goes from Created to Active  *)
(* to Finalized and never back; once finalize has been invoked there is no  *)
(* encode call and no second finalize on the session; the sink is handed    *)
(* off to at most once and receives no emit after that.                     *)
C13_SessionLifecycle ==
    /\ [][\/ SessionState' = SessionState
          \/ <<SessionState, SessionState'>> \in {<<"Created", "Active">>,
                                                  <<"Created", "Finalized">>,
                                                  <<"Active", "Finalized">>}]_vars
    /\ [][SessionState = "Finalized" =>
             /\ roots' = roots
             /\ ref_log' = ref_log
             /\ write_log' = write_log
             /\ fin'.four_cc = fin.four_cc
             /\ fin'.object_table_address = fin.object_table_address]_vars
    /\ [](Len(encoder.finalized) <= 1)
    /\ [](encoder.finalized # <<>> => pc = "finalized")
    /\ [][encoder.finalized # <<>> => encoder' = encoder]_vars

\* A session that made two encode calls was finalized
C13_Witness ==
    /\ SessionState = "Finalized"
    /\ encoder.finalized # <<>>
    /\ Len(roots) >= 2

-----------------------------------------------------------------------------
Written(uid) == WritesOf(uid) # {}

WriteIndex(uid) == CHOOSE j \in WritesOf(uid) : TRUE

\* the sink position at which the first reference to uid was emitted
DiscoveredAt(uid) == ref_log[FirstRef(uid)].at

\* the words encode_contents of an object emits: the id, two tags, the references
ContentsLen(o) == 2 + 1 + Some(graph[o].left) + 1 + Some(graph[o].right)

\* uid was first referenced by the contents that write j of the log wrote
DiscoveredDuring(uid, j) ==
    /\ write_log[j].position <= DiscoveredAt(uid)
    /\ DiscoveredAt(uid) < write_log[j].position + ContentsLen(write_log[j].object)

\* uid was in the queue when write j of the log started
PendingAt(uid, j) ==
    /\ DiscoveredAt(uid) < write_log[j].position
    /\ Written(uid) => WriteIndex(uid) > j

\* the contents of n are written before those of p
WrittenBefore(n, p) == Written(p) => (Written(n) /\ WriteIndex(n) < WriteIndex(p))

C14_Order ==
    \A j \in DOMAIN write_log : \A n \in ReferencedKeys :
        DiscoveredDuring(n, j) =>
            /\ \A p \in ReferencedKeys : PendingAt(p, j) => WrittenBefore(n, p)
            /\ \A m \in ReferencedKeys :
                   (DiscoveredDuring(m, j) /\ FirstRef(m) < FirstRef(n)) => WrittenBefore(n, m)

(* C14. LIFO drain: every pop of write_enqueued_objects takes the item      *)
(* enqueued last and leaves the others; objects first referenced by the     *)
(* contents of an object are written, the latest first, before any object   *)
(* that was in the queue when these contents were started; and an encode    *)
(* call returns with an empty queue, the objects enqueued during the drain  *)
(* written in the same call.                                                *)
C14_LifoDrain ==
    /\ [][(pc = "drain" /\ pc' = "contents") =>
             /\ delayed_writes # <<>>
             /\ item'.object = delayed_writes[Len(delayed_writes)].object
             /\ item'.object_table_index =
                    delayed_writes[Len(delayed_writes)].object_table_index
             /\ delayed_writes' = SubSeq(delayed_writes, 1, Len(delayed_writes) - 1)]_vars
    /\ []C14_Order
    /\ [](pc = "idle" =>
             /\ delayed_writes = <<>>
             /\ \A uid \in ReferencedKeys : Written(uid))

\* The contents of an object popped while another object was in the queue
\* referenced a new object, and all of them were written
C14_Witness ==
    /\ pc = "idle"
    /\ \E j \in DOMAIN write_log : \E n, p \in ReferencedKeys :
           /\ DiscoveredDuring(n, j)
           /\ PendingAt(p, j)
           /\ Written(p) /\ Written(n)

-----------------------------------------------------------------------------
(* An encode call as a function of the object graph, with the item that a   *)
(* pop takes as a parameter: the last one ("lifo", the code) or the first   *)
(* one ("fifo").                                                            *)

\* encode_contents of an object with the fields g gives it: id, left, right
encode_contents(ctx, object, g) ==
    LET id == [ctx EXCEPT !.encoder = emit_u64(@, IdOf(object))]
    IN  encode_option_ref(encode_option_ref(id, g[object].left), g[object].right)

\* Faulty variant of write_enqueued_objects: the body of the loop runs once
write_enqueued_objects_once(ctx, g, order) ==
    IF ctx.delayed_writes = <<>>
    THEN ctx
    ELSE LET n == Len(ctx.delayed_writes)
             k == IF order = "lifo" THEN n ELSE 1
             popped == ctx.delayed_writes[k]
             at == position(ctx.encoder)
             after == encode_contents(
                          [ctx EXCEPT !.delayed_writes = <<>>,
                                      !.write_log = Append(@, [object |-> popped.object,
                                                               object_table_index |->
                                                                   popped.object_table_index,
                                                               position |-> at])],
                          popped.object, g)
         IN  [after EXCEPT !.object_table[popped.object_table_index + 1] = at,
                           !.delayed_writes = <<>>]

RECURSIVE write_enqueued_objects(_, _, _)
write_enqueued_objects(ctx, g, order) ==
    IF ctx.delayed_writes = <<>>
    THEN ctx
    ELSE LET n == Len(ctx.delayed_writes)
             k == IF order = "lifo" THEN n ELSE 1
             popped == ctx.delayed_writes[k]
             rest == SubSeq(ctx.delayed_writes, 1, k - 1) \o
                     SubSeq(ctx.delayed_writes, k + 1, n)
             at == position(ctx.encoder)
             after == encode_contents(
                          [ctx EXCEPT !.delayed_writes = rest,
                                      !.write_log = Append(@, [object |-> popped.object,
                                                               object_table_index |->
                                                                   popped.object_table_index,
                                                               position |-> at])],
                          popped.object, g)
         IN  write_enqueued_objects(
                 [after EXCEPT !.object_table[popped.object_table_index + 1] = at],
                 g, order)

\* The tables of a new session over an empty sink
NewContext ==
    [encoder |-> [out |-> <<>>, finalized |-> <<>>],
     object_table_indices |-> [uid \in Keys |-> Vacant],
     object_table |-> <<>>,
     delayed_writes |-> <<>>,
     ref_log |-> <<>>,
     write_log |-> <<>>]

\* EncodingSession::encode of a reference to `object`, as the first call of a session
encode(object, g, order) ==
    write_enqueued_objects(encode_object(NewContext, object), g, order)


\* The first encode call of the session has returned
FirstCallReturned == pc = "idle" /\ Len(roots) = 1

\* What the session holds, as a run
Observed ==
    [encoder |-> encoder,
     object_table_indices |-> object_table_indices,
     object_table |-> object_table,
     delayed_writes |-> delayed_writes,
     ref_log |-> ref_log,
     write_log |-> write_log]

\* The same call on the same graph with the queue drained oldest first, and
\* drained latest first
Fifo == encode(write_log[1].object, graph, "fifo")

Lifo == encode(write_log[1].object, graph, "lifo")

KeysOf(run) == {uid \in Keys : run.object_table_indices[uid] # Vacant}

WrittenObjects(run) == {run.write_log[j].object : j \in DOMAIN run.write_log}

WrittenOnce(run) == Len(run.write_log) = Cardinality(WrittenObjects(run))

FieldOf(o, f) == IF f = 1 THEN graph[o].left ELSE graph[o].right

\* The reference sites of the contents written: (object, field)
Sites(run) == {s \in WrittenObjects(run) \X {1, 2} : FieldOf(s[1], s[2]) # None}

\* The value a run emitted at a reference site
SiteValue(run, s) ==
    LET j == CHOOSE i \in DOMAIN run.write_log : run.write_log[i].object = s[1]
        start == run.write_log[j].position
        at == IF s[2] = 1 THEN start + 3 ELSE start + 4 + Some(graph[s[1]].left)
    IN  run.encoder.out[at + 1]

\* Every reference site of a run holds the index the run gave to the key
SitesConsistent(run) ==
    /\ run.encoder.out[1] = run.object_table_indices[object_uid(run.write_log[1].object)]
    /\ \A s \in Sites(run) :
           SiteValue(run, s) = run.object_table_indices[object_uid(FieldOf(s[1], s[2]))]

(* C15. Drain-order independence, as stated: draining oldest first gives    *)
(* the same ObjectUid -> index assignment, the same value at every          *)
(* reference site and the same objects written once as draining latest      *)
(* first.                                                                   *)
C15_DrainOrderIndependence ==
    FirstCallReturned =>
        /\ Fifo.object_table_indices = object_table_indices
        /\ Fifo.encoder.out[1] = encoder.out[1]
        /\ Sites(Fifo) = Sites(Observed)
        /\ \A s \in Sites(Observed) : SiteValue(Fifo, s) = SiteValue(Observed, s)
        /\ WrittenObjects(Fifo) = WrittenObjects(Observed)
        /\ WrittenOnce(Fifo) /\ WrittenOnce(Observed)

(* C15, amended: draining oldest first and draining latest first give the   *)
(* same set of ObjectUids an index, in tables of the same length, and write *)
(* the same objects once each; in each of the two runs every reference site *)
(* holds the index that this run gave to the ObjectUid referenced.  The     *)
(* encode call as a function, draining latest first, is the session's call. *)
C15_DrainOrderSameObjects ==
    FirstCallReturned =>
        /\ Lifo = Observed
        /\ KeysOf(Fifo) = KeysOf(Observed)
        /\ Len(Fifo.object_table) = Len(object_table)
        /\ Fifo.delayed_writes = <<>>
        /\ WrittenObjects(Fifo) = WrittenObjects(Observed)
        /\ WrittenOnce(Fifo) /\ WrittenOnce(Observed)
        /\ Sites(Fifo) = Sites(Observed)
        /\ SitesConsistent(Fifo) /\ SitesConsistent(Observed)

\* A graph for which the two orders give some ObjectUid different indices
C15_Witness ==
    /\ FirstCallReturned
    /\ Fifo.object_table_indices # object_table_indices

-----------------------------------------------------------------------------
\* The contents of the log's writes do not overlap: each one ended before the
\* next one started
C16_NoNesting ==
    \A j \in DOMAIN write_log :
        j < Len(write_log) =>
            write_log[j].position + ContentsLen(write_log[j].object)
                <= write_log[j + 1].position

(* C16. Deferred content writing: an encode_object call emits the index and *)
(* nothing after it, and starts no contents; on a first reference the       *)
(* object is put on the queue.  Contents are started only by a pop of the   *)
(* drain loop, one at a time, and when they are started for index i the     *)
(* table has an entry i and this entry holds u64::MAX.                      *)
C16_DeferredContentWriting ==
    /\ [][Len(ref_log') > Len(ref_log) =>
             LET new == ref_log'[Len(ref_log')]
             IN  /\ Len(ref_log') = Len(ref_log) + 1
                 /\ write_log' = write_log
                 /\ Len(encoder'.out) = new.at + 1
                 /\ new.is_new =>
                        /\ delayed_writes' # <<>>
                        /\ object_uid(delayed_writes'[Len(delayed_writes')].object) = new.uid
                        /\ ~Written(new.uid)]_vars
    /\ [][write_log' # write_log =>
             /\ pc = "drain" /\ pc' = "contents"
             /\ encoder' = encoder
             /\ Len(write_log') = Len(write_log) + 1
             /\ item'.object_table_index < Len(object_table)
             /\ object_table[item'.object_table_index + 1] = U64Max]_vars
    /\ []C16_NoNesting

-----------------------------------------------------------------------------
\* The ObjectUids that have an entry in the identity table
Occupied == {uid \in Keys : object_table_indices[uid] # Vacant}

(* C17. Hit leaves the tables unchanged: an encode_object call for an       *)
(* ObjectUid that has an entry in the identity table emits the stored index *)
(* and leaves the identity table, the object table and the queue as they    *)
(* were; a call for an ObjectUid that has none adds one entry to the        *)
(* identity table, one u64::MAX at the end of the object table and one item *)
(* at the end of the queue, and changes nothing else in the three.          *)
C17_HitLeavesTables ==
    [][Len(ref_log') > Len(ref_log) =>
          LET new == ref_log'[Len(ref_log')]
              n == Len(object_table)
              q == Len(delayed_writes)
          IN  IF new.uid \in Occupied
              THEN /\ encoder'.out[new.at + 1] = object_table_indices[new.uid]
                   /\ Len(encoder'.out) = new.at + 1
                   /\ object_table_indices' = object_table_indices
                   /\ object_table' = object_table
                   /\ delayed_writes' = delayed_writes
              ELSE /\ encoder'.out[new.at + 1] = object_table_indices'[new.uid]
                   /\ object_table_indices'[new.uid] # Vacant
                   /\ \A uid \in Keys \ {new.uid} :
                          object_table_indices'[uid] = object_table_indices[uid]
                   /\ object_table' = Append(object_table, U64Max)
                   /\ Len(delayed_writes') = q + 1
                   /\ SubSeq(delayed_writes', 1, q) = delayed_writes
                   /\ delayed_writes'[q + 1].object_table_index =
                          object_table_indices'[new.uid]]_vars

\* A reference to a key that had an entry was encoded, and later a first
\* reference to another key
C17_Witness ==
    \E j, k \in DOMAIN ref_log :
        /\ j < k
        /\ ~ref_log[j].is_new
        /\ ref_log[k].is_new

-----------------------------------------------------------------------------
\* The indices of the items in the queue
QueuedIndices == {delayed_writes[k].object_table_index : k \in DOMAIN delayed_writes}

(* C18. Worklist invariant: in every state of a session the identity table  *)
(* maps the ObjectUids referenced so far one-to-one onto the indices        *)
(* 0 .. Len(object_table) - 1, no index is twice in the queue, and entry i  *)
(* of the object table holds u64::MAX exactly when index i is in the queue  *)
(* or is the index of the object whose contents are being written.         *)
C18_WorklistInvariant ==
    /\ Occupied = ReferencedKeys
    /\ {object_table_indices[uid] : uid \in Occupied} = 0..(Len(object_table) - 1)
    /\ Cardinality(Occupied) = Len(object_table)
    /\ Cardinality(QueuedIndices) = Len(delayed_writes)
    /\ \A i \in 0..(Len(object_table) - 1) :
           object_table[i + 1] = U64Max <=>
               \/ i \in QueuedIndices
               \/ pc = "contents" /\ item.object_table_index = i

-----------------------------------------------------------------------------
(* C19. Index width: the index given to an ObjectUid at its first reference *)
(* is the length of the object table converted to the width of the index,   *)
(* different ObjectUids have different indices, and the index of an         *)
(* ObjectUid is the place in the object table of the entry pushed for it,   *)
(* for any number of ObjectUids in the session.                             *)
C19_IndexWidth ==
    /\ \A j \in DOMAIN ref_log :
           ref_log[j].is_new => encoder.out[ref_log[j].at + 1] = as_u32(ref_log[j].table_len)
    /\ \A a, b \in Occupied :
           a # b => object_table_indices[a] # object_table_indices[b]
    /\ \A uid \in Occupied \cap ReferencedKeys :
           object_table_indices[uid] = ref_log[FirstRef(uid)].table_len

-----------------------------------------------------------------------------
\* The object whose `id` field holds id
ObjectOf(id) == id \div WordMod

\* The objects the contents of an object reference
Targets(o) == {graph[o].left, graph[o].right} \ {None}

RECURSIVE Acyclic(_, _)
\* No chain of references from o comes back to an object on it, nor to `path`
Acyclic(o, path) ==
    /\ o \notin path
    /\ \A t \in Targets(o) : Acyclic(t, path \cup {o})

RECURSIVE LongestChain(_)
\* The number of objects on the longest chain of references from o (o acyclic)
LongestChain(o) ==
    LET below == {LongestChain(t) : t \in Targets(o)}
    IN  IF below = {} THEN 1 ELSE 1 + CHOOSE n \in below : \A m \in below : m <= n

\* The decoding session was given the whole table of the encoding session
WholeTable ==
    /\ dpc # "none"
    /\ Len(dcx.object_table) =
           Cardinality({object_uid(o) : o \in {x \in Objects : graph[x].known}})

\* An object the encoding session was given: it was written or referenced
Mentioned(o) == graph[o].known \/ \E x \in Objects : o \in Targets(x)

\* The objects of the encoding session reported different ObjectUids
DistinctKeys == \A a, b \in Objects : (Mentioned(a) /\ Mentioned(b)) => ~Collide(a, b)

(* C20. Decode termination: over the data and the table of an encoding      *)
(* session whose objects reported different ObjectUids, a decode_object     *)
(* call returns only for an object from which no                            *)
(* chain of references leads into a cycle; for such an object the decoding  *)
(* does not fail and the number of decode_object calls in progress never    *)
(* exceeds the number of objects on the longest chain of references from    *)
(* it.                                                                      *)
C20_DecodeTermination ==
    (WholeTable /\ DistinctKeys) =>
        /\ \A j \in DOMAIN ret_log : Acyclic(ObjectOf(ret_log[j].id), {})
        /\ \A stack \in {frames, fault.unwound} :
               (stack # <<>> /\ stack[1].field >= 1
                             /\ Acyclic(ObjectOf(stack[1].id), {})) =>
                   /\ Len(stack) <= LongestChain(ObjectOf(stack[1].id))
                   /\ dpc # "panicked"

====
